---- MODULE Spec2Model ----
(***************************************************************************)
(* Model of build_handoff.py: the four agent reports are read in the       *)
(* enumeration order of `files`, their findings are tagged, sorted by      *)
(* severity, the first 30 become raw patch candidates, those are           *)
(* deduplicated by (priority, change_summary, risk_if_not_applied), and    *)
(* the handoff and the confirmation template are written, in that order.   *)
(*                                                                         *)
(* A Python dict is a function whose DOMAIN is the set of keys that are    *)
(* present; dict.get is Get. A dict that is iterated (files, dedup_map)    *)
(* is kept with its insertion order.                                       *)
(***************************************************************************)
EXTENDS Integers, Sequences, FiniteSets, TLC

VARIABLES exists, pc, file_idx, agents, all_findings, raw_patch_candidates,
          dedup_map, deduplicated_patch_candidates, confirmation_template,
          handoff, handoff_file, confirmation_file

vars == <<exists, pc, file_idx, agents, all_findings, raw_patch_candidates,
          dedup_map, deduplicated_patch_candidates, confirmation_template,
          handoff, handoff_file, confirmation_file>>

(* ------------------------------ bounds --------------------------------- *)

\* Findings over all the reports of one run, in the specification Spec.
MaxFindings == 2

\* In SpecBulk the longest report has MaxCandidates + BulkExtra findings.
BulkExtra == 1

(* ------------------------- program constants --------------------------- *)

\* all_findings[:30]
MaxCandidates == 30

\* severity_order.get(..., 9)
UnknownRank == 9

\* Python's None: what dict.get returns for a key that is absent.
None == "<None>"

\* The keys of `files`, in insertion order.
AgentKeys == <<"logic", "code_quality", "silent_failure", "testing_static">>

files ==
  [logic          |-> "agent-logic.json",
   code_quality   |-> "agent-code-quality.json",
   silent_failure |-> "agent-silent-failure.json",
   testing_static |-> "agent-testing-static.json"]

severity_order == [Alta |-> 0, Media |-> 1, Baja |-> 2]

\* sys.argv[2..4], opaque to the program.
run_id == "run"
session_name == "session"
plan_path == "plan.md"

(* ----------------------------- helpers --------------------------------- *)

\* d.get(k, default)
Get(d, k, default) == IF k \in DOMAIN d THEN d[k] ELSE default

\* d[k] = v on a copy of d
Put(d, k, v) == [f \in (DOMAIN d) \cup {k} |-> IF f = k THEN v ELSE d[f]]

\* severity_order.get(v, 9)
Rank(v) == Get(severity_order, v, UnknownRank)

\* The sort key if a finding without severity were ranked as an unknown one.
FindingSortKeyAbsentLast(x) == Rank(Get(x, "severity", None))

\* key=lambda x: severity_order.get(x.get("severity", "Baja"), 9)
FindingSortKey(x) == Rank(Get(x, "severity", "Baja"))

\* key=lambda x: severity_order.get(x.get("priority", "Baja"), 9)
CandidateSortKey(x) == Rank(Get(x, "priority", "Baja"))

\* A sort that is not stable: the elements of one key come out reversed.
BucketReversed(pairs, k) ==
  LET b == SelectSeq(pairs, LAMBDA p : p[1] = k)
  IN  [i \in 1..Len(b) |-> b[Len(b) + 1 - i]]

\* The elements of pairs (<<key, element>>) whose key is k, in their order.
Bucket(pairs, k) == SelectSeq(pairs, LAMBDA p : p[1] = k)

\* The buckets of the keys ks, one after the other by increasing key.
RECURSIVE Buckets(_, _)
Buckets(pairs, ks) ==
  IF ks = {} THEN <<>>
  ELSE LET k == CHOOSE x \in ks : \A y \in ks : x <= y
       IN  Bucket(pairs, k) \o Buckets(pairs, ks \ {k})

\* list.sort(key=...) is a stable sort; keys[i] is the key computed for
\* seq[i]. The result holds, key by key in increasing order, the elements
\* with that key in the order they had.
SortByKeys(seq, keys) ==
  LET pairs  == [i \in 1..Len(seq) |-> <<keys[i], seq[i]>>]
      sorted == Buckets(pairs, {keys[i] : i \in 1..Len(seq)})
  IN  [i \in 1..Len(seq) |-> sorted[i][2]]

\* The findings left in input order.
SortFindingsListSkipped(seq) == seq

SortFindingsList(seq) ==
  SortByKeys(seq, [i \in 1..Len(seq) |-> FindingSortKey(seq[i])])

SortCandidatesList(seq) ==
  SortByKeys(seq, [i \in 1..Len(seq) |-> CandidateSortKey(seq[i])])

\* item = dict(item); item["agent"] = key, for every item of the report
TagFindings(data, key) ==
  LET items == Get(data, "findings", <<>>)
  IN  [i \in 1..Len(items) |-> Put(items[i], "agent", key)]

\* The placeholder of a report whose file does not exist.
Pending(key) == [agent |-> key, status |-> "pending", findings |-> <<>>]

\* One raw patch candidate, from the finding f at position idx (1-based).
RawCandidate(idx, f) ==
  [id                         |-> "patch-" \o ToString(idx),
   priority                   |-> Get(f, "severity", "Baja"),
   source_agent               |-> Get(f, "agent", None),
   change_summary             |-> Get(f, "recommendation", None),
   risk_if_not_applied        |-> Get(f, "risk", None),
   status                     |-> "proposed",
   requires_user_confirmation |-> TRUE,
   user_decision              |-> "deferred",
   user_notes                 |-> ""]

\* The slice without its bound.
HeadAll(seq) == seq

\* all_findings[:30]
Head30(seq) ==
  SubSeq(seq, 1, IF Len(seq) < MaxCandidates THEN Len(seq) ELSE MaxCandidates)

RawCandidates(findings) ==
  LET top == Head30(findings)
  IN  [i \in 1..Len(top) |-> RawCandidate(i, top[i])]

\* A key that leaves the risk out.
DedupKeyNoRisk(p) ==
  <<Get(p, "priority", None), Get(p, "change_summary", None), None>>

\* key = (p.get("priority"), p.get("change_summary"), p.get("risk_if_not_applied"))
DedupKey(p) ==
  <<Get(p, "priority", None), Get(p, "change_summary", None),
    Get(p, "risk_if_not_applied", None)>>

\* The entry a key gets when it is first met; n is len(dedup_map) then.
DedupEntry(n, p) ==
  [id                         |-> "patch-dedup-" \o ToString(n + 1),
   priority                   |-> Get(p, "priority", None),
   change_summary             |-> Get(p, "change_summary", None),
   risk_if_not_applied        |-> Get(p, "risk_if_not_applied", None),
   source_agents              |-> <<Get(p, "source_agent", None)>>,
   status                     |-> "proposed",
   requires_user_confirmation |-> TRUE,
   user_decision              |-> "deferred",
   user_notes                 |-> ""]

InSeq(x, seq) == \E i \in 1..Len(seq) : seq[i] = x

\* The iteration without the "not in" test of line 71.
DedupStepRepeats(map, p) ==
  LET key == <<Get(p, "priority", None), Get(p, "change_summary", None),
               Get(p, "risk_if_not_applied", None)>>
      agent == Get(p, "source_agent", None)
  IN  IF \A i \in 1..Len(map) : map[i].key # key
      THEN Append(map, [key |-> key,
                        value |-> [id |-> "patch-dedup-" \o ToString(Len(map) + 1),
                                   priority |-> key[1],
                                   change_summary |-> key[2],
                                   risk_if_not_applied |-> key[3],
                                   source_agents |-> <<agent>>,
                                   status |-> "proposed",
                                   requires_user_confirmation |-> TRUE,
                                   user_decision |-> "deferred",
                                   user_notes |-> ""]])
      ELSE [i \in 1..Len(map) |->
              IF map[i].key = key
              THEN [map[i] EXCEPT !.value.source_agents = Append(@, agent)]
              ELSE map[i]]

\* One iteration of the dedup loop. The dict is a sequence of
\* [key, value] items in insertion order.
DedupStep(map, p) ==
  LET key == DedupKey(p)
      agent == Get(p, "source_agent", None)
  IN  IF \A i \in 1..Len(map) : map[i].key # key
      THEN Append(map, [key |-> key, value |-> DedupEntry(Len(map), p)])
      ELSE [i \in 1..Len(map) |->
              IF map[i].key = key /\ ~InSeq(agent, map[i].value.source_agents)
              THEN [map[i] EXCEPT !.value.source_agents = Append(@, agent)]
              ELSE map[i]]

RECURSIVE DedupLoop(_)
DedupLoop(raw) ==
  IF raw = <<>> THEN <<>>
  ELSE DedupStep(DedupLoop(SubSeq(raw, 1, Len(raw) - 1)), raw[Len(raw)])

\* list(dedup_map.values())
Values(map) == [i \in 1..Len(map) |-> map[i].value]

Decision(p) ==
  [patch_id      |-> p.id,
   user_decision |-> "deferred",
   user_notes    |-> "",
   approved_by   |-> "",
   approved_at   |-> ""]

\* The slots taken from the raw candidates instead.
ConfirmationTemplateFromRaw(dedup) ==
  [run_id    |-> run_id,
   decisions |-> [i \in 1..Len(raw_patch_candidates) |->
                    Decision(raw_patch_candidates[i])]]

ConfirmationTemplate(dedup) ==
  [run_id    |-> run_id,
   decisions |-> [i \in 1..Len(dedup) |-> Decision(dedup[i])]]

\* generated_at is the clock's reading and is left out.
Handoff(findings, raw, dedup) ==
  [schema_version                |-> "2.0",
   handoff_version               |-> "2.0",
   run_id                        |-> run_id,
   session_name                  |-> session_name,
   plan_path                     |-> plan_path,
   agent_outputs                 |-> files,
   findings                      |-> findings,
   raw_patch_candidates          |-> raw,
   deduplicated_patch_candidates |-> dedup,
   decision_rules                |->
     [allowed_user_decisions     |-> <<"approved", "rejected", "deferred">>,
      default                    |-> "deferred",
      requires_user_confirmation |-> TRUE],
   next_step_for_parent_agent    |-> "Presentar deduplicated_patch_candidates"]

(* --------------------------- output files ------------------------------ *)

\* What the run finds at an output path: nothing, or an earlier run's file.
Prior == [state |-> "prior"]

\* open(path, "w") succeeded and json.dump did not finish.
Partial == [state |-> "partial"]

Written(doc) == [state |-> "written", content |-> doc]

(* ------------------------------ inputs --------------------------------- *)

Severities == {"Alta", "Media", "Baja", "Desconocida"}

\* Every finding over one recommendation text and one risk text; each of the
\* three fields may be absent.
AllFindings ==
  UNION {
    { [f \in D |-> CASE f = "severity" -> s
                     [] f = "recommendation" -> "r1"
                     [] f = "risk" -> "k1"] : s \in Severities }
    : D \in SUBSET {"severity", "recommendation", "risk"} }

\* The findings of Spec: all shapes of an Alta finding, and for every other
\* severity (the absent one too) the finding with both texts.
SmallFindings ==
  { f \in AllFindings :
      \/ Get(f, "severity", None) = "Alta"
      \/ {"recommendation", "risk"} \subseteq DOMAIN f }

SeqsOfLen(S, n) == [1..n -> S]

\* The reports a file of Spec can hold when `room` more findings are allowed.
SmallReports(room) ==
  { [status |-> "completed", findings |-> fs] :
      fs \in UNION { SeqsOfLen(SmallFindings, n) : n \in 0..room } }

\* Long reports repeat a pattern of findings.
BulkPatterns ==
  { <<[severity |-> "Alta", recommendation |-> "r1", risk |-> "k1"]>>,
    <<[severity |-> "Desconocida", recommendation |-> "r1", risk |-> "k1"],
      [recommendation |-> "r1"],
      [severity |-> "Alta", risk |-> "k1"]>> }

BulkLens == {1, MaxCandidates \div 2, MaxCandidates + BulkExtra}

Repeat(pattern, n) == [i \in 1..n |-> pattern[((i - 1) % Len(pattern)) + 1]]

\* The reports a file of SpecBulk can hold: one without the findings field,
\* and the long ones.
BulkReports ==
  {[status |-> "completed"]} \cup
  { [status |-> "completed", findings |-> Repeat(p, n)] :
      p \in BulkPatterns, n \in BulkLens }

(* ------------------------------ actions -------------------------------- *)

Init ==
  /\ exists \in [{AgentKeys[i] : i \in 1..Len(AgentKeys)} -> BOOLEAN]
  /\ pc = "load"
  /\ file_idx = 1
  /\ agents = <<>>
  /\ all_findings = <<>>
  /\ raw_patch_candidates = <<>>
  /\ dedup_map = <<>>
  /\ deduplicated_patch_candidates = <<>>
  /\ confirmation_template = <<>>
  /\ handoff = <<>>
  /\ handoff_file = Prior
  /\ confirmation_file = Prior

AfterFile == IF file_idx = Len(AgentKeys) THEN "sort" ELSE "load"

\* Lines 24-31: the file exists and json.load returns data.
LoadReport(data) ==
  LET key == AgentKeys[file_idx] IN
  /\ pc = "load"
  /\ exists[key]
  /\ agents' = Put(agents, key, data)
  /\ all_findings' = all_findings \o TagFindings(data, key)
  /\ file_idx' = file_idx + 1
  /\ pc' = AfterFile
  /\ UNCHANGED <<exists, raw_patch_candidates, dedup_map,
                 deduplicated_patch_candidates, confirmation_template,
                 handoff, handoff_file, confirmation_file>>

LoadSmallReport ==
  \E data \in SmallReports(MaxFindings - Len(all_findings)) : LoadReport(data)

LoadBulkReport ==
  \E data \in BulkReports : LoadReport(data)

\* The read error caught and the file skipped.
LoadFailsSwallowed ==
  /\ pc = "load"
  /\ exists[AgentKeys[file_idx]]
  /\ file_idx' = file_idx + 1
  /\ pc' = AfterFile
  /\ UNCHANGED <<exists, agents, all_findings, raw_patch_candidates,
                 dedup_map, deduplicated_patch_candidates,
                 confirmation_template, handoff, handoff_file,
                 confirmation_file>>

\* Lines 24-26: the file exists and open or json.load raises.
LoadFails ==
  /\ pc = "load"
  /\ exists[AgentKeys[file_idx]]
  /\ pc' = "load_error"
  /\ UNCHANGED <<exists, file_idx, agents, all_findings, raw_patch_candidates,
                 dedup_map, deduplicated_patch_candidates,
                 confirmation_template, handoff, handoff_file,
                 confirmation_file>>

\* A missing file opened all the same: open raises.
LoadMissingRaises ==
  /\ pc = "load"
  /\ ~exists[AgentKeys[file_idx]]
  /\ pc' = "load_error"
  /\ UNCHANGED <<exists, file_idx, agents, all_findings, raw_patch_candidates,
                 dedup_map, deduplicated_patch_candidates,
                 confirmation_template, handoff, handoff_file,
                 confirmation_file>>

\* Lines 32-33: the file does not exist.
LoadMissing ==
  LET key == AgentKeys[file_idx] IN
  /\ pc = "load"
  /\ ~exists[key]
  /\ agents' = Put(agents, key, Pending(key))
  /\ file_idx' = file_idx + 1
  /\ pc' = AfterFile
  /\ UNCHANGED <<exists, all_findings, raw_patch_candidates, dedup_map,
                 deduplicated_patch_candidates, confirmation_template,
                 handoff, handoff_file, confirmation_file>>

\* Lines 35-36.
SortFindings ==
  /\ pc = "sort"
  /\ all_findings' = SortFindingsList(all_findings)
  /\ pc' = "raw"
  /\ UNCHANGED <<exists, file_idx, agents, raw_patch_candidates, dedup_map,
                 deduplicated_patch_candidates, confirmation_template,
                 handoff, handoff_file, confirmation_file>>

\* Lines 38-52.
BuildRawCandidates ==
  /\ pc = "raw"
  /\ raw_patch_candidates' = RawCandidates(all_findings)
  /\ pc' = "dedup"
  /\ UNCHANGED <<exists, file_idx, agents, all_findings, dedup_map,
                 deduplicated_patch_candidates, confirmation_template,
                 handoff, handoff_file, confirmation_file>>

\* Lines 54-77: the dedup loop, then the list of values and its sort.
Deduplicate ==
  /\ pc = "dedup"
  /\ dedup_map' = DedupLoop(raw_patch_candidates)
  /\ deduplicated_patch_candidates' = SortCandidatesList(Values(dedup_map'))
  /\ pc' = "assemble"
  /\ UNCHANGED <<exists, file_idx, agents, all_findings, raw_patch_candidates,
                 confirmation_template, handoff, handoff_file,
                 confirmation_file>>

\* Lines 79-110.
Assemble ==
  /\ pc = "assemble"
  /\ confirmation_template' = ConfirmationTemplate(deduplicated_patch_candidates)
  /\ handoff' = Handoff(all_findings, raw_patch_candidates,
                        deduplicated_patch_candidates)
  /\ pc' = "write_handoff"
  /\ UNCHANGED <<exists, file_idx, agents, all_findings, raw_patch_candidates,
                 dedup_map, deduplicated_patch_candidates, handoff_file,
                 confirmation_file>>

\* Lines 112-114, both succeed.
WriteHandoff ==
  /\ pc = "write_handoff"
  /\ handoff_file' = Written(handoff)
  /\ pc' = "write_confirmation"
  /\ UNCHANGED <<exists, file_idx, agents, all_findings, raw_patch_candidates,
                 dedup_map, deduplicated_patch_candidates,
                 confirmation_template, handoff, confirmation_file>>

\* Line 113: open raises, the file is as it was.
WriteHandoffOpenFails ==
  /\ pc = "write_handoff"
  /\ pc' = "write_handoff_error"
  /\ UNCHANGED <<exists, file_idx, agents, all_findings, raw_patch_candidates,
                 dedup_map, deduplicated_patch_candidates,
                 confirmation_template, handoff, handoff_file,
                 confirmation_file>>

\* Line 114: the file was opened (and truncated) and json.dump raises.
WriteHandoffDumpFails ==
  /\ pc = "write_handoff"
  /\ handoff_file' = Partial
  /\ pc' = "write_handoff_error"
  /\ UNCHANGED <<exists, file_idx, agents, all_findings, raw_patch_candidates,
                 dedup_map, deduplicated_patch_candidates,
                 confirmation_template, handoff, confirmation_file>>

\* Lines 116-118, both succeed.
WriteConfirmation ==
  /\ pc = "write_confirmation"
  /\ confirmation_file' = Written(confirmation_template)
  /\ pc' = "done"
  /\ UNCHANGED <<exists, file_idx, agents, all_findings, raw_patch_candidates,
                 dedup_map, deduplicated_patch_candidates,
                 confirmation_template, handoff, handoff_file>>

\* Line 117: open raises.
WriteConfirmationOpenFails ==
  /\ pc = "write_confirmation"
  /\ pc' = "write_confirmation_error"
  /\ UNCHANGED <<exists, file_idx, agents, all_findings, raw_patch_candidates,
                 dedup_map, deduplicated_patch_candidates,
                 confirmation_template, handoff, handoff_file,
                 confirmation_file>>

\* The second write failing and the first output removed again.
WriteConfirmationDumpFailsRollback ==
  /\ pc = "write_confirmation"
  /\ confirmation_file' = Partial
  /\ handoff_file' = Prior
  /\ pc' = "write_confirmation_error"
  /\ UNCHANGED <<exists, file_idx, agents, all_findings, raw_patch_candidates,
                 dedup_map, deduplicated_patch_candidates,
                 confirmation_template, handoff>>

\* Line 118: json.dump raises.
WriteConfirmationDumpFails ==
  /\ pc = "write_confirmation"
  /\ confirmation_file' = Partial
  /\ pc' = "write_confirmation_error"
  /\ UNCHANGED <<exists, file_idx, agents, all_findings, raw_patch_candidates,
                 dedup_map, deduplicated_patch_candidates,
                 confirmation_template, handoff, handoff_file>>

\* Everything after the load loop.
Transform ==
  \/ SortFindings
  \/ BuildRawCandidates
  \/ Deduplicate
  \/ Assemble
  \/ WriteHandoff
  \/ WriteHandoffOpenFails
  \/ WriteHandoffDumpFails
  \/ WriteConfirmation
  \/ WriteConfirmationOpenFails
  \/ WriteConfirmationDumpFails

Next ==
  \/ LoadSmallReport
  \/ LoadFails
  \/ LoadMissing
  \/ Transform

Spec == Init /\ [][Next]_vars

NextBulk ==
  \/ LoadBulkReport
  \/ LoadFails
  \/ LoadMissing
  \/ Transform

SpecBulk == Init /\ [][NextBulk]_vars

(* ------------------------- program positions --------------------------- *)

KeySet == {AgentKeys[i] : i \in 1..Len(AgentKeys)}

\* The load loop has ended without an error.
Loaded == pc \notin {"load", "load_error"}

\* Line 36 has run.
Sorted == Loaded /\ pc # "sort"

\* Lines 38-52 have run.
HasRaw == Sorted /\ pc # "raw"

\* Lines 54-77 have run.
Deduped == HasRaw /\ pc # "dedup"

\* Lines 79-110 have run.
Assembled == Deduped /\ pc # "assemble"

(* --------------------- what the claims speak about --------------------- *)

\* The findings of the report read for key, each with its agent, in the
\* order of the report.
InputOf(key) ==
  LET items == IF "findings" \in DOMAIN agents[key]
               THEN agents[key].findings ELSE <<>>
  IN  [i \in 1..Len(items) |->
         [f \in (DOMAIN items[i]) \cup {"agent"} |->
            IF f = "agent" THEN key ELSE items[i][f]]]

\* The input order: agent enumeration order, then the order within a report.
InputFindings ==
  InputOf("logic") \o InputOf("code_quality") \o InputOf("silent_failure")
    \o InputOf("testing_static")

HasSeverity(f) == "severity" \in DOMAIN f

KnownSeverity(f) == HasSeverity(f) /\ f.severity \in {"Alta", "Media", "Baja"}

KnownRank(sev) == CASE sev = "Alta" -> 0 [] sev = "Media" -> 1 [] sev = "Baja" -> 2

\* The rank the code gives: a finding without severity counts as Baja.
CodeRank(f) ==
  IF ~HasSeverity(f) THEN 2
  ELSE IF KnownSeverity(f) THEN KnownRank(f.severity) ELSE 9

PriorityRank(prio) ==
  IF prio \in {"Alta", "Media", "Baja"} THEN KnownRank(prio) ELSE 9

SeverityOrNone(f) == IF HasSeverity(f) THEN f.severity ELSE None

Triple(c) == <<c.priority, c.change_summary, c.risk_if_not_applied>>

\* The triple a finding gives its candidate.
FindingTriple(f) ==
  <<IF HasSeverity(f) THEN f.severity ELSE "Baja",
    IF "recommendation" \in DOMAIN f THEN f.recommendation ELSE None,
    IF "risk" \in DOMAIN f THEN f.risk ELSE None>>

Count(seq, x) == Cardinality({i \in 1..Len(seq) : seq[i] = x})

Smaller(a, b) == IF a < b THEN a ELSE b

\* The elements of seq at the indices idxs, in increasing index order.
AtIndices(seq, idxs) ==
  [n \in 1..Cardinality(idxs) |->
     seq[CHOOSE i \in idxs : Cardinality({j \in idxs : j <= i}) = n]]

(* ------------------------------- C1 ------------------------------------ *)

\* C1 as stated: in the aggregated sequence every finding whose severity is
\* absent or is not Alta, Media or Baja comes after every finding whose
\* severity is Alta, Media or Baja, and in the deduplicated list every
\* candidate whose priority is none of the three comes after the others.
C1_UnrankedAfterKnown ==
  /\ Sorted =>
       \A i, j \in 1..Len(all_findings) :
         (~KnownSeverity(all_findings[i]) /\ KnownSeverity(all_findings[j]))
           => j < i
  /\ Deduped =>
       \A i, j \in 1..Len(deduplicated_patch_candidates) :
         (PriorityRank(deduplicated_patch_candidates[i].priority) = 9
            /\ PriorityRank(deduplicated_patch_candidates[j].priority) < 9)
           => j < i

\* C1 amended: a finding whose severity is present and is not Alta, Media or
\* Baja ranks 9 and comes after every finding that has a known severity or
\* none; a finding without severity ranks as Baja (2): it comes after every
\* Alta and Media finding, keeps its input order among the Baja findings, and
\* its candidate has priority Baja. The deduplicated list is ordered by the
\* rank of the priority, an unknown priority last.
C1_AbsentRanksAsBaja ==
  /\ Sorted =>
       /\ \A i, j \in 1..Len(all_findings) :
            i < j => CodeRank(all_findings[i]) <= CodeRank(all_findings[j])
       /\ SelectSeq(all_findings, LAMBDA f : CodeRank(f) = 2)
            = SelectSeq(InputFindings, LAMBDA f : CodeRank(f) = 2)
  /\ HasRaw =>
       \A i \in 1..Len(raw_patch_candidates) :
         ~HasSeverity(all_findings[i]) => raw_patch_candidates[i].priority = "Baja"
  /\ Deduped =>
       \A i, j \in 1..Len(deduplicated_patch_candidates) :
         i < j => PriorityRank(deduplicated_patch_candidates[i].priority)
                    <= PriorityRank(deduplicated_patch_candidates[j].priority)

\* An unknown severity stood before a finding without severity and the sort
\* has put the finding without severity first.
C1_Witness ==
  /\ pc = "done"
  /\ Len(all_findings) = 2
  /\ HasSeverity(InputFindings[1]) /\ InputFindings[1].severity = "Desconocida"
  /\ ~HasSeverity(all_findings[1])
  /\ all_findings[2] = InputFindings[1]
  /\ Len(deduplicated_patch_candidates) = 2
  /\ deduplicated_patch_candidates[1].priority = "Baja"
  /\ deduplicated_patch_candidates[2].priority = "Desconocida"

(* ------------------------------- C2 ------------------------------------ *)

\* The raw candidates with the triple of d, as indices.
SameKey(d) ==
  {i \in 1..Len(raw_patch_candidates) : Triple(raw_patch_candidates[i]) = Triple(d)}

\* Of those, the ones whose agent was not seen at an earlier one.
FirstOfAgent(d) ==
  {i \in SameKey(d) :
     \A j \in SameKey(d) :
       j < i => raw_patch_candidates[j].source_agent
                  # raw_patch_candidates[i].source_agent}

\* C2: the source_agents of a deduplicated candidate are the distinct
\* source_agent values of the raw candidates with its triple, in the order of
\* their first occurrence, none repeated.
C2_SourceAgentsFirstSeen ==
  Deduped =>
    \A n \in 1..Len(deduplicated_patch_candidates) :
      LET d == deduplicated_patch_candidates[n]
          firsts == AtIndices(raw_patch_candidates, FirstOfAgent(d))
      IN  /\ d.source_agents = [i \in 1..Len(firsts) |-> firsts[i].source_agent]
          /\ \A i, j \in 1..Len(d.source_agents) :
               i # j => d.source_agents[i] # d.source_agents[j]

\* The merge scenario: two Alta findings with the same texts, from logic and
\* from code_quality, are one candidate with both agents.
C2_Witness ==
  /\ pc = "done"
  /\ Len(raw_patch_candidates) = 2
  /\ raw_patch_candidates[1].priority = "Alta"
  /\ raw_patch_candidates[1].change_summary = "r1"
  /\ raw_patch_candidates[1].risk_if_not_applied = "k1"
  /\ Len(deduplicated_patch_candidates) = 1
  /\ deduplicated_patch_candidates[1].source_agents = <<"logic", "code_quality">>

(* ------------------------------- C3 ------------------------------------ *)

\* C3: no two deduplicated candidates have the same triple, and the triple of
\* every raw candidate is the triple of exactly one deduplicated candidate.
C3_UniqueKeys ==
  Deduped =>
    /\ \A i, j \in 1..Len(deduplicated_patch_candidates) :
         i # j => Triple(deduplicated_patch_candidates[i])
                    # Triple(deduplicated_patch_candidates[j])
    /\ \A r \in 1..Len(raw_patch_candidates) :
         Cardinality({i \in 1..Len(deduplicated_patch_candidates) :
                        Triple(deduplicated_patch_candidates[i])
                          = Triple(raw_patch_candidates[r])}) = 1

\* Two findings without recommendation and without risk, of one priority,
\* are one candidate.
C3_Witness ==
  /\ pc = "done"
  /\ Len(raw_patch_candidates) = 2
  /\ \A i \in 1..2 :
       /\ "recommendation" \notin DOMAIN all_findings[i]
       /\ "risk" \notin DOMAIN all_findings[i]
  /\ Len(deduplicated_patch_candidates) = 1
  /\ deduplicated_patch_candidates[1].change_summary = None
  /\ deduplicated_patch_candidates[1].risk_if_not_applied = None

(* ------------------------------- C4 ------------------------------------ *)

\* C4: with n sorted findings there are min(n, 30) raw candidates, the i-th
\* is patch-i and is made from the i-th finding, every agent of a
\* deduplicated candidate comes from one of the first 30 findings with that
\* candidate's triple, and the handoff holds all n findings.
C4_CapAtThirty ==
  LET n == Len(all_findings)
      k == Smaller(n, 30)
  IN  /\ HasRaw =>
           /\ Len(raw_patch_candidates) = k
           /\ \A i \in 1..Len(raw_patch_candidates) :
                /\ raw_patch_candidates[i].id = "patch-" \o ToString(i)
                /\ Triple(raw_patch_candidates[i]) = FindingTriple(all_findings[i])
                /\ raw_patch_candidates[i].source_agent = all_findings[i].agent
      /\ Deduped =>
           \A d \in 1..Len(deduplicated_patch_candidates) :
             \A a \in 1..Len(deduplicated_patch_candidates[d].source_agents) :
               \E i \in 1..k :
                 /\ all_findings[i].agent
                      = deduplicated_patch_candidates[d].source_agents[a]
                 /\ FindingTriple(all_findings[i])
                      = Triple(deduplicated_patch_candidates[d])
      /\ Assembled =>
           /\ handoff.findings = all_findings
           /\ handoff.raw_patch_candidates = raw_patch_candidates
           /\ LET input == InputFindings
              IN  /\ Len(handoff.findings) = Len(input)
                  /\ \A f \in {input[i] : i \in 1..Len(input)} :
                       Count(handoff.findings, f) = Count(input, f)

\* More than 30 findings: the one at position 31 or later has the triple of a
\* deduplicated candidate and its agent is in no candidate.
C4_Witness ==
  /\ pc = "done"
  /\ Len(all_findings) > 30
  /\ Len(raw_patch_candidates) = 30
  /\ Len(handoff_file.content.findings) = Len(all_findings)
  /\ \E i \in 31..Len(all_findings) :
       /\ \E d \in 1..Len(deduplicated_patch_candidates) :
            Triple(deduplicated_patch_candidates[d]) = FindingTriple(all_findings[i])
       /\ \A d \in 1..Len(deduplicated_patch_candidates) :
            \A a \in 1..Len(deduplicated_patch_candidates[d].source_agents) :
              deduplicated_patch_candidates[d].source_agents[a]
                # all_findings[i].agent

(* ------------------------------- C5 ------------------------------------ *)

\* C5: of two findings with severities among Alta < Media < Baja the one of
\* lower rank comes first, and the findings of one severity are in their
\* input order.
C5_StableBySeverity ==
  Sorted =>
    /\ \A i, j \in 1..Len(all_findings) :
         (/\ KnownSeverity(all_findings[i])
          /\ KnownSeverity(all_findings[j])
          /\ KnownRank(all_findings[i].severity)
               < KnownRank(all_findings[j].severity)) => i < j
    /\ LET input == InputFindings
       IN  /\ Len(all_findings) = Len(input)
           /\ \A s \in {SeverityOrNone(input[n]) : n \in 1..Len(input)} :
                SelectSeq(all_findings, LAMBDA f : SeverityOrNone(f) = s)
                  = SelectSeq(input, LAMBDA f : SeverityOrNone(f) = s)

\* Two findings of one severity that differ, from two reports: they are in
\* agent enumeration order.
C5_Witness ==
  /\ pc = "done"
  /\ Len(all_findings) = 2
  /\ KnownSeverity(all_findings[1])
  /\ SeverityOrNone(all_findings[1]) = SeverityOrNone(all_findings[2])
  /\ all_findings[1].agent = "code_quality"
  /\ all_findings[2].agent = "testing_static"

(* ------------------------------- C6 ------------------------------------ *)

SlotsMatch(decisions, dedup) ==
  /\ Len(decisions) = Len(dedup)
  /\ \A i \in 1..Len(decisions) :
       /\ decisions[i].patch_id = dedup[i].id
       /\ decisions[i].user_decision = "deferred"
       /\ decisions[i].user_notes = ""
       /\ decisions[i].approved_by = ""
       /\ decisions[i].approved_at = ""

\* C6: the template has one slot per deduplicated candidate, in the order of
\* the final list, each deferred with empty notes, approver and timestamp;
\* the same holds of the two documents once both are written.
C6_SlotPerCandidate ==
  /\ Assembled =>
       /\ SlotsMatch(confirmation_template.decisions, deduplicated_patch_candidates)
       /\ handoff.deduplicated_patch_candidates = deduplicated_patch_candidates
  /\ pc = "done" =>
       SlotsMatch(confirmation_file.content.decisions,
                  handoff_file.content.deduplicated_patch_candidates)

\* Both documents written, with two candidates and two slots.
C6_Witness ==
  /\ pc = "done"
  /\ Len(raw_patch_candidates) = 2
  /\ Len(handoff_file.content.deduplicated_patch_candidates) = 2
  /\ Len(confirmation_file.content.decisions) = 2

(* ------------------------------- C7 ------------------------------------ *)

\* C7: when reading a report fails, neither output has been written, and an
\* output is touched only after all four reports were read or found missing.
C7_ReadErrorWritesNothing ==
  /\ pc = "load_error" => (handoff_file = Prior /\ confirmation_file = Prior)
  /\ (handoff_file # Prior \/ confirmation_file # Prior) =>
       /\ file_idx = Len(AgentKeys) + 1
       /\ DOMAIN agents = KeySet

\* The third report fails to parse after two reports with findings.
C7_Witness ==
  /\ pc = "load_error"
  /\ file_idx = 3
  /\ Len(all_findings) = 2
  /\ all_findings[1].agent = "logic"
  /\ all_findings[2].agent = "code_quality"
  /\ handoff_file = Prior
  /\ confirmation_file = Prior

(* ------------------------------- C8 ------------------------------------ *)

\* C8: a missing file is no error. A read error is always at a file that
\* exists; a missing agent has the pending placeholder and no finding; after
\* the load loop all four agents have a report; agent_outputs has the four
\* keys.
C8_MissingIsPending ==
  /\ pc = "load_error" => exists[AgentKeys[file_idx]]
  /\ \A key \in KeySet :
       ~exists[key] =>
         /\ key \in DOMAIN agents =>
              agents[key] = [agent |-> key, status |-> "pending", findings |-> <<>>]
         /\ \A i \in 1..Len(all_findings) : all_findings[i].agent # key
  /\ Loaded => DOMAIN agents = KeySet
  /\ Assembled => DOMAIN handoff.agent_outputs = KeySet
  /\ handoff_file.state = "written" =>
       DOMAIN handoff_file.content.agent_outputs
         = {"logic", "code_quality", "silent_failure", "testing_static"}

\* Two of the four files are missing and the run has ended with both outputs.
C8_Witness ==
  /\ pc = "done"
  /\ Cardinality({key \in KeySet : ~exists[key]}) = 2
  /\ ~exists["logic"]
  /\ agents["logic"].status = "pending"
  /\ Len(all_findings) = 2
  /\ confirmation_file.state = "written"

(* ------------------------------- C9 ------------------------------------ *)

\* C9: the handoff is written first and the template second, without
\* rollback. Before the first write both files are as they were; a run that
\* ends well has written both; a failing first write leaves the template
\* untouched; a failing second write leaves the handoff written; the template
\* is never touched unless the handoff is written.
C9_HandoffThenTemplate ==
  /\ pc \in {"load", "load_error", "sort", "raw", "dedup", "assemble",
             "write_handoff"} =>
       (handoff_file = Prior /\ confirmation_file = Prior)
  /\ pc = "write_handoff_error" =>
       (handoff_file \in {Prior, Partial} /\ confirmation_file = Prior)
  /\ pc \in {"write_confirmation", "write_confirmation_error", "done"} =>
       handoff_file = [state |-> "written", content |-> handoff]
  /\ pc = "write_confirmation" => confirmation_file = Prior
  /\ pc = "write_confirmation_error" => confirmation_file \in {Prior, Partial}
  /\ pc = "done" =>
       confirmation_file = [state |-> "written", content |-> confirmation_template]
  /\ confirmation_file # Prior => handoff_file.state = "written"

\* The second write has failed half way and the handoff is on disk.
C9_Witness ==
  /\ pc = "write_confirmation_error"
  /\ confirmation_file = Partial
  /\ handoff_file.state = "written"
  /\ Len(handoff_file.content.findings) = 2

(* ------------------------------- C10 ----------------------------------- *)

\* C10: the final sort of the deduplicated list changes nothing: the list is
\* the dict's values in insertion order, its ids are patch-dedup-1, ...,
\* patch-dedup-M in that order, and so are the slots' ids.
C10_FinalSortIsIdentity ==
  /\ Deduped =>
       /\ deduplicated_patch_candidates
            = [i \in 1..Len(dedup_map) |-> dedup_map[i].value]
       /\ \A i \in 1..Len(deduplicated_patch_candidates) :
            deduplicated_patch_candidates[i].id = "patch-dedup-" \o ToString(i)
  /\ Assembled =>
       /\ Len(confirmation_template.decisions) = Len(dedup_map)
       /\ \A i \in 1..Len(confirmation_template.decisions) :
            confirmation_template.decisions[i].patch_id
              = "patch-dedup-" \o ToString(i)

\* The input had a Baja finding before an Alta one; the Alta candidate is
\* patch-dedup-1 and the Baja one patch-dedup-2.
C10_Witness ==
  /\ pc = "done"
  /\ Len(InputFindings) = 2
  /\ CodeRank(InputFindings[1]) = 2
  /\ CodeRank(InputFindings[2]) = 0
  /\ Len(deduplicated_patch_candidates) = 2
  /\ deduplicated_patch_candidates[1].priority = "Alta"
  /\ deduplicated_patch_candidates[1].id = "patch-dedup-1"
  /\ deduplicated_patch_candidates[2].id = "patch-dedup-2"

====
